---- MODULE Spec2Model ----
(***************************************************************************)
(* The request-construction and response-decoding pipeline of http.go:     *)
(* NewRequestWithContext, Send, the envelope builders SendText,            *)
(* SendLocation, React, SendContact, and Reply with buildReplyPayload.     *)
(* One behaviour is one call of one exported function.  Strings whose      *)
(* characters matter (header names and values, the reply payload) are      *)
(* sequences of one-character strings.                                     *)
(***************************************************************************)
EXTENDS Integers, Sequences, FiniteSets, TLC

\* ------------------------------------------------------------------ bounds
\* longest Recipient string of a ReplyParams
MaxLen == 2
\* longest Context string of a ReplyParams
MaxContextLen == 1
\* largest number of entries of RequestParams.Headers
MaxHeaders == 2

\* ------------------------------------------------------- program constants
\* net/http's http.StatusOK, the status Send compares with
StatusOK == 200

\* --------------------------------------------------------------- strings
LowerCase == <<"a", "b", "c", "d", "e", "f", "g", "h", "i", "j", "k", "l", "m", "n", "o", "p", "q", "r", "s", "t", "u", "v", "w", "x", "y", "z">>

UpperCase == <<"A", "B", "C", "D", "E", "F", "G", "H", "I", "J", "K", "L", "M", "N", "O", "P", "Q", "R", "S", "T", "U", "V", "W", "X", "Y", "Z">>

\* the i with letters[i] = c, or 0
IndexOf(letters, c) ==
    IF \E i \in 1..Len(letters) : letters[i] = c
    THEN CHOOSE i \in 1..Len(letters) : letters[i] = c
    ELSE 0

ToUpper(c) ==
    IF IndexOf(LowerCase, c) # 0 THEN UpperCase[IndexOf(LowerCase, c)] ELSE c

ToLower(c) ==
    IF IndexOf(UpperCase, c) # 0 THEN LowerCase[IndexOf(UpperCase, c)] ELSE c

\* all sequences over alphabet of length at most n
RECURSIVE StringsUpTo(_, _)
StringsUpTo(alphabet, n) ==
    IF n = 0 THEN {<<>>}
    ELSE LET shorter == StringsUpTo(alphabet, n - 1)
         IN  shorter \cup {Append(s, c) : s \in shorter, c \in alphabet}

\* ------------------------------------------------------------ http.Header
AuthorizationKey == <<"A", "u", "t", "h", "o", "r", "i", "z", "a", "t", "i", "o", "n">>

BearerPrefix == <<"B", "e", "a", "r", "e", "r", " ">>

\* textproto.CanonicalMIMEHeaderKey, which http.Header.Set applies to the
\* key: the first letter and every letter after a hyphen in upper case, the
\* others in lower case.
CanonicalMIMEHeaderKey(key) ==
    [i \in 1..Len(key) |->
        IF i = 1 \/ key[i - 1] = "-" THEN ToUpper(key[i]) ELSE ToLower(key[i])]

\* http.Header.Set(key, value): replaces the value stored under the
\* canonical form of key.
HeaderSet(h, key, value) ==
    LET k == CanonicalMIMEHeaderKey(key)
    IN  [x \in DOMAIN h \cup {k} |-> IF x = k THEN value ELSE h[x]]

\* the loop of lines 41-43 over params.Headers, in the iteration order
\* `order` (Go leaves the order of a map range unspecified)
RECURSIVE ApplyHeaders(_, _, _)
ApplyHeaders(h, headers, order) ==
    IF order = <<>> THEN h
    ELSE ApplyHeaders(HeaderSet(h, Head(order), headers[Head(order)]),
                      headers, Tail(order))

\* a changed SetBearer: the bearer header is inserted only when the caller
\* supplied no Authorization header
SetBearerIfAbsent(h, bearer) ==
    IF bearer # <<>> /\ AuthorizationKey \notin DOMAIN h
    THEN HeaderSet(h, AuthorizationKey, BearerPrefix \o bearer)
    ELSE h

\* lines 45-47
SetBearer(h, bearer) ==
    IF bearer # <<>>
    THEN HeaderSet(h, AuthorizationKey, BearerPrefix \o bearer)
    ELSE h

\* every order in which a range over a map with key set S can visit it
RECURSIVE Orders(_)
Orders(S) ==
    IF S = {} THEN {<<>>}
    ELSE UNION {{<<k>> \o o : o \in Orders(S \ {k})} : k \in S}

\* --------------------------------------------------------- RequestParams
GoodURL == "https://graph.facebook.com"
BadURL == "https://graph.facebook.com:port"
GoodMethod == "POST"
BadMethod == "BAD METHOD"

\* url.JoinPath fails exactly when url.Parse of the base fails
JoinPathOK(base) == base # BadURL

\* http.NewRequestWithContext fails on a method that is not a token
ValidMethod(method) == method # BadMethod

HeaderKeys ==
    { AuthorizationKey,
      <<"a", "u", "t", "h", "o", "r", "i", "z", "a", "t", "i", "o", "n">>,
      <<"C", "o", "n", "t", "e", "n", "t", "-", "T", "y", "p", "e">> }

HeaderValues == { <<"B", "a", "s", "i", "c">> }

HeaderMaps ==
    UNION { [D -> HeaderValues] :
              D \in {X \in SUBSET HeaderKeys : Cardinality(X) <= MaxHeaders} }

Bearers == { <<>>, <<"t", "0">> }

NilParams == [nil |-> TRUE]

ParamsSet ==
    {NilParams}
    \cup { [nil |-> FALSE, BaseURL |-> u, Method |-> m, Headers |-> h, Bearer |-> b] :
             u \in {GoodURL}, m \in {GoodMethod}, h \in HeaderMaps, b \in Bearers }
    \cup { [nil |-> FALSE, BaseURL |-> BadURL, Method |-> GoodMethod,
            Headers |-> h, Bearer |-> b] : h \in {<<>>}, b \in Bearers }
    \cup { [nil |-> FALSE, BaseURL |-> GoodURL, Method |-> BadMethod,
            Headers |-> h, Bearer |-> b] : h \in {<<>>}, b \in Bearers }

\* ------------------------------------------------------------------ JSON
\* json.Marshal of a Go string: the characters between two quotes, each
\* quote and backslash preceded by a backslash
RECURSIVE EscapeString(_)
EscapeString(str) ==
    IF str = <<>> THEN <<>>
    ELSE (IF Head(str) \in {"\"", "\\"} THEN <<"\\", Head(str)>> ELSE <<Head(str)>>)
         \o EscapeString(Tail(str))

MarshalString(str) == <<"\"">> \o EscapeString(str) \o <<"\"">>

\* the values ReplyParams.Content (an `any`) takes here: nil, a string,
\* and a channel, which json.Marshal rejects
NilContent == [kind |-> "nil", s |-> <<>>]
ChanContent == [kind |-> "chan", s |-> <<>>]

ContentStrings == { <<"h", "i">>, <<"h", "\"">> }

Contents ==
    {NilContent, ChanContent}
    \cup { [kind |-> "string", s |-> s] : s \in ContentStrings }

\* json.Marshal(options.Content), line 292
MarshalContent(c) ==
    CASE c.kind = "nil"    -> [err |-> FALSE, bytes |-> <<"n", "u", "l", "l">>]
      [] c.kind = "string" -> [err |-> FALSE, bytes |-> MarshalString(c.s)]
      [] OTHER             -> [err |-> TRUE, bytes |-> <<>>]

TextType == <<"t", "e", "x", "t">>

\* lines 291-309
buildReplyPayload(options) ==
    LET content == MarshalContent(options.Content)
    IN  IF content.err
        THEN [err |-> TRUE, bytes |-> <<>>]
        ELSE [err |-> FALSE,
              bytes |->
                <<"{", "\"", "m", "e", "s", "s", "a", "g", "i", "n", "g", "_", "p", "r", "o", "d", "u", "c", "t", "\"", ":", "\"", "w", "h", "a", "t", "s", "a", "p", "p", "\"", ",", "\"", "c", "o", "n", "t", "e", "x", "t", "\"", ":", "{", "\"", "m", "e", "s", "s", "a", "g", "e", "_", "i", "d", "\"", ":", "\"">>
                \o options.Context
                \o <<"\"", "}", ",", "\"", "t", "o", "\"", ":", "\"">>
                \o options.Recipient
                \o <<"\"", ",", "\"", "t", "y", "p", "e", "\"", ":", "\"">>
                \o options.MessageType
                \o <<"\"", ",", "\"">>
                \o options.MessageType
                \o <<"\"", ":">>
                \o content.bytes
                \o <<"}">>]

\* A JSON reader for the texts above (objects, strings, null; no white
\* space).  A value is [t, s, m]: t is "str", "obj" or "null", s the decoded
\* characters of a string, m the members <<[k, v], ...>> of an object.
NullVal == [t |-> "null", s |-> <<>>, m |-> <<>>]
StrVal(str) == [t |-> "str", s |-> str, m |-> <<>>]
ObjVal(members) == [t |-> "obj", s |-> <<>>, m |-> members]
ParseFail(i) == [ok |-> FALSE, next |-> i, val |-> NullVal]

\* the character an escape \c stands for; "" when \c is no escape
Unescape(c) ==
    CASE c \in {"\"", "\\", "/"} -> c
      [] c = "n" -> "\n"
      [] c = "t" -> "\t"
      [] c = "r" -> "\r"
      [] c = "f" -> "\f"
      [] OTHER   -> ""

\* reads a string whose opening quote is at i - 1
RECURSIVE ScanString(_, _, _)
ScanString(s, i, acc) ==
    IF i > Len(s) THEN [ok |-> FALSE, next |-> i, str |-> acc]
    ELSE IF s[i] = "\"" THEN [ok |-> TRUE, next |-> i + 1, str |-> acc]
    ELSE IF s[i] = "\\"
         THEN IF i + 1 > Len(s) \/ Unescape(s[i + 1]) = ""
              THEN [ok |-> FALSE, next |-> i, str |-> acc]
              ELSE ScanString(s, i + 2, Append(acc, Unescape(s[i + 1])))
         ELSE ScanString(s, i + 1, Append(acc, s[i]))

RECURSIVE ParseValue(_, _)
RECURSIVE ParseMembers(_, _, _)
ParseValue(s, i) ==
    IF i > Len(s) THEN ParseFail(i)
    ELSE IF s[i] = "\""
         THEN LET r == ScanString(s, i + 1, <<>>)
              IN  [ok |-> r.ok, next |-> r.next, val |-> StrVal(r.str)]
    ELSE IF s[i] = "{"
         THEN IF i + 1 <= Len(s) /\ s[i + 1] = "}"
              THEN [ok |-> TRUE, next |-> i + 2, val |-> ObjVal(<<>>)]
              ELSE ParseMembers(s, i + 1, <<>>)
    ELSE IF i + 3 <= Len(s) /\ SubSeq(s, i, i + 3) = <<"n", "u", "l", "l">>
         THEN [ok |-> TRUE, next |-> i + 4, val |-> NullVal]
    ELSE ParseFail(i)

\* reads "key":value pairs from i up to the closing brace
ParseMembers(s, i, acc) ==
    IF i > Len(s) \/ s[i] # "\"" THEN ParseFail(i)
    ELSE LET k == ScanString(s, i + 1, <<>>)
         IN  IF ~k.ok \/ k.next > Len(s) \/ s[k.next] # ":" THEN ParseFail(i)
             ELSE LET v == ParseValue(s, k.next + 1)
                      acc2 == Append(acc, [k |-> k.str, v |-> v.val])
                  IN  IF ~v.ok \/ v.next > Len(s) THEN ParseFail(i)
                      ELSE IF s[v.next] = ","
                           THEN ParseMembers(s, v.next + 1, acc2)
                      ELSE IF s[v.next] = "}"
                           THEN [ok |-> TRUE, next |-> v.next + 1, val |-> ObjVal(acc2)]
                      ELSE ParseFail(i)

\* the text is one JSON value and nothing else
ParseJSON(s) ==
    LET r == ParseValue(s, 1)
    IN  IF r.ok /\ r.next = Len(s) + 1 THEN r ELSE ParseFail(r.next)

HasMember(v, key) == v.t = "obj" /\ \E i \in 1..Len(v.m) : v.m[i].k = key

\* the value of the last member named key (a later duplicate replaces an
\* earlier one), NullVal when there is none
Member(v, key) ==
    IF HasMember(v, key)
    THEN LET last == CHOOSE i \in 1..Len(v.m) :
                        /\ v.m[i].k = key
                        /\ \A j \in (i + 1)..Len(v.m) : v.m[j].k # key
         IN  v.m[last].v
    ELSE NullVal

\* ------------------------------------------------------------- arguments
Nil == [nil |-> TRUE]

Alphabet == {"1", "\"", "\\"}

\* the *SendTextRequest arguments
SendTextRequests ==
    {Nil} \cup { [nil |-> FALSE, Recipient |-> <<"1">>, Message |-> "hi", PreviewURL |-> p] :
                   p \in BOOLEAN }

\* a *models.Location and a *models.Contacts: nil or one value
Locations == {Nil, [nil |-> FALSE, Name |-> "office"]}
ContactsSet == {Nil, [nil |-> FALSE, Name |-> "ann"]}

SendLocationRequests ==
    {Nil} \cup { [nil |-> FALSE, Recipient |-> <<"1">>, Location |-> l] : l \in Locations }

ReactRequests ==
    {Nil} \cup { [nil |-> FALSE, Recipient |-> <<"1">>, MessageID |-> "wamid.A", Emoji |-> e] :
                   e \in {"", ":)"} }

SendContactRequests ==
    {Nil} \cup { [nil |-> FALSE, Recipient |-> <<"1">>, Contacts |-> c] : c \in ContactsSet }

\* the *ReplyParams arguments
ReplyParamsSet ==
    {Nil} \cup { [nil |-> FALSE, Recipient |-> r, Context |-> c,
                  MessageType |-> TextType, Content |-> ct] :
                   r \in StringsUpTo(Alphabet, MaxLen),
                   c \in StringsUpTo(Alphabet, MaxContextLen),
                   ct \in Contents }

\* a []byte payload: nil, the bytes of a reply, or the encoding
\* json.Marshal gives a Message (kept as the Message it encodes)
NilPayload == [nil |-> TRUE, raw |-> <<>>, msg |-> Nil]
RawPayload(bytes) == [nil |-> FALSE, raw |-> bytes, msg |-> Nil]
Marshal(message) == [nil |-> FALSE, raw |-> <<>>, msg |-> message]

\* the payloads a caller hands to Send directly
DirectPayloads == {NilPayload, RawPayload(<<"{", "}">>)}

\* the Message struct literal of the builders; a field the literal leaves
\* out has its zero value
Message(to, recipientType, type, text, location, reaction, contacts) ==
    [nil |-> FALSE, Product |-> "whatsapp", To |-> to,
     RecipientType |-> recipientType, Type |-> type,
     Text |-> text, Location |-> location, Reaction |-> reaction,
     Contacts |-> contacts]

\* ------------------------------------------------------------- responses
Statuses == {200, 201, 400}

\* the text of a response body: zero-length, not JSON, or a JSON object
\* with an optional "code" (-1: none) and an optional message id ("": none)
BodyTexts ==
    { [kind |-> "empty", code |-> -1, id |-> ""],
      [kind |-> "garbage", code |-> -1, id |-> ""] }
    \cup { [kind |-> "object", code |-> c, id |-> ""] : c \in {-1, 100, 400} }
    \cup { [kind |-> "object", code |-> -1, id |-> "wamid.ID"] }

\* resp.Body: nil, a stream whose read fails, or a stream of a text
Bodies ==
    { [nil |-> TRUE, readErr |-> FALSE, text |-> [kind |-> "empty", code |-> -1, id |-> ""]] }
    \cup { [nil |-> FALSE, readErr |-> TRUE, text |-> [kind |-> "empty", code |-> -1, id |-> ""]] }
    \cup { [nil |-> FALSE, readErr |-> FALSE, text |-> t] : t \in BodyTexts }

ResponseHeaders == {"h1", "h2"}

Responses ==
    { [nil |-> FALSE, StatusCode |-> s, Header |-> h, Body |-> b] :
        s \in Statuses, h \in ResponseHeaders, b \in Bodies }

NoResponse == [nil |-> TRUE]

\* ---------------------------------------------------------------- results
NoError == [kind |-> "nil", msg |-> "", Code |-> 0]
Error(msg) == [kind |-> "error", msg |-> msg, Code |-> 0]
ErrorResponse(code) == [kind |-> "ErrorResponse", msg |-> "", Code |-> code]

NilResult == [Response |-> Nil, err |-> NoError]
Failure(err) == [Response |-> Nil, err |-> err]

\* json.Unmarshal(bodybytes, &errResponse), line 88
UnmarshalErrorResponse(text) ==
    CASE text.kind = "empty"   -> [err |-> Error("unexpected end of JSON input"), value |-> ErrorResponse(0)]
      [] text.kind = "garbage" -> [err |-> Error("invalid character"), value |-> ErrorResponse(0)]
      [] OTHER -> [err |-> NoError,
                   value |-> ErrorResponse(IF text.code = -1 THEN 0 ELSE text.code)]

\* json.NewDecoder(...).Decode(&message), line 100
DecodeResponseMessage(text) ==
    CASE text.kind = "empty"   -> [err |-> Error("EOF"), value |-> [ID |-> ""]]
      [] text.kind = "garbage" -> [err |-> Error("invalid character"), value |-> [ID |-> ""]]
      [] OTHER -> [err |-> NoError, value |-> [ID |-> text.id]]

\* a changed ErrorBranch: the decoded error keeps the code of the body
ErrorBranchKeepsBodyCode(status, text) ==
    LET d == UnmarshalErrorResponse(text)
    IN  IF d.err # NoError THEN Failure(d.err) ELSE Failure(d.value)

\* lines 87-92
ErrorBranch(status, text) ==
    LET d == UnmarshalErrorResponse(text)
    IN  IF d.err # NoError
        THEN Failure(d.err)
        ELSE Failure([d.value EXCEPT !.Code = status])

\* lines 95-107
SuccessBranch(resp, text) ==
    LET d == DecodeResponseMessage(text)
    IN  IF d.err # NoError
        THEN Failure(d.err)
        ELSE [Response |-> [nil |-> FALSE, StatusCode |-> resp.StatusCode,
                            Headers |-> resp.Header, Message |-> d.value],
              err |-> NoError]

\* a changed test of line 86: every 2xx status counts as success
IsErrorStatusAbove2xx(status) == status >= 300

\* line 86
IsErrorStatus(status) == status # StatusOK

\* lines 77-107: what Send returns for a response
SendOutcome(resp) ==
    IF resp.Body.nil THEN Failure(Error("empty response body"))
    ELSE IF resp.Body.readErr THEN Failure(Error("read failed"))
    ELSE IF IsErrorStatus(resp.StatusCode)
         THEN ErrorBranch(resp.StatusCode, resp.Body.text)
         ELSE SuccessBranch(resp, resp.Body.text)

\* line 75: the method value resp.Body.Close is taken when the defer
\* statement runs; on a nil interface value that is a run-time panic
DeferPanics(resp) == resp.Body.nil

\* lines 18-58 (the query string apart): the request or an error
NoRequest == [nil |-> TRUE]

NewRequestWithContext(p, payload, order) ==
    IF ~JoinPathOK(p.BaseURL)
    THEN [err |-> Error("failed to join url parts"), req |-> NoRequest]
    ELSE IF ~ValidMethod(p.Method)
    THEN [err |-> Error("failed to create new request"), req |-> NoRequest]
    ELSE [err |-> NoError,
          req |-> [nil |-> FALSE, Method |-> p.Method, URL |-> p.BaseURL,
                   Body |-> payload,
                   Header |-> SetBearer(ApplyHeaders(<<>>, p.Headers, order), p.Bearer)]]

\* ------------------------------------------------------------------ state
VARIABLES
    pc,            \* "idle", "send" (in Send, before line 67), "do" (before
                   \* line 71), "resp" (before line 75), "done", "panic"
    op,            \* the exported function that was called
    args,          \* its request / options / payload argument
    params,        \* its *RequestParams argument
    envelope,      \* the Message a builder constructed
    payload,       \* the payload handed to Send
    req,           \* the *http.Request of NewRequestWithContext
    resp,          \* the *http.Response of client.Do
    result,        \* the (*Response, error) returned
    marshalCount,  \* calls of json.Marshal
    reqCount,      \* requests constructed
    doCount,       \* calls of client.Do
    closeCount     \* calls of resp.Body.Close

vars == <<pc, op, args, params, envelope, payload, req, resp, result,
          marshalCount, reqCount, doCount, closeCount>>

Init ==
    /\ pc = "idle"
    /\ op = "none"
    /\ args = Nil
    /\ params = NilParams
    /\ envelope = Nil
    /\ payload = NilPayload
    /\ req = NoRequest
    /\ resp = NoResponse
    /\ result = NilResult
    /\ marshalCount = 0
    /\ reqCount = 0
    /\ doCount = 0
    /\ closeCount = 0

\* a builder of lines 117-244 called with request r: a nil r is
\* dereferenced by the struct literal; otherwise the literal message is
\* marshalled and Send is entered
Build(name, p, r, message) ==
    /\ op' = name
    /\ args' = r
    /\ params' = p
    /\ IF r.nil
       THEN /\ pc' = "panic"
            /\ UNCHANGED <<envelope, payload, marshalCount>>
       ELSE /\ envelope' = message
            /\ payload' = Marshal(message)
            /\ marshalCount' = marshalCount + 1
            /\ pc' = "send"
    /\ UNCHANGED <<req, resp, result, reqCount, doCount, closeCount>>

\* lines 117-135
SendText ==
    /\ pc = "idle"
    /\ \E p \in ParamsSet, r \in SendTextRequests :
        Build("SendText", p, r,
              IF r.nil THEN Nil
              ELSE Message(r.Recipient, "individual", "text",
                           [nil |-> FALSE, PreviewUrl |-> r.PreviewURL, Body |-> r.Message],
                           Nil, Nil, Nil))

\* lines 142-156
SendLocation ==
    /\ pc = "idle"
    /\ \E p \in ParamsSet, r \in SendLocationRequests :
        Build("SendLocation", p, r,
              IF r.nil THEN Nil
              ELSE Message(r.Recipient, "individual", "location",
                           Nil, r.Location, Nil, Nil))

\* lines 206-223
React ==
    /\ pc = "idle"
    /\ \E p \in ParamsSet, r \in ReactRequests :
        Build("React", p, r,
              IF r.nil THEN Nil
              ELSE Message(r.Recipient, "", "reaction", Nil, Nil,
                           [nil |-> FALSE, MessageID |-> r.MessageID, Emoji |-> r.Emoji],
                           Nil))

\* lines 230-244
SendContact ==
    /\ pc = "idle"
    /\ \E p \in ParamsSet, r \in SendContactRequests :
        Build("SendContact", p, r,
              IF r.nil THEN Nil
              ELSE Message(r.Recipient, "individual", "contact",
                           Nil, Nil, Nil, r.Contacts))

\* a changed Reply: no test of options == nil, so buildReplyPayload
\* dereferences the nil options
ReplyWithoutNilCheck ==
    /\ pc = "idle"
    /\ \E p \in ParamsSet, o \in ReplyParamsSet :
        /\ op' = "Reply"
        /\ args' = o
        /\ params' = p
        /\ IF o.nil
           THEN /\ pc' = "panic"
                /\ UNCHANGED <<payload, result, marshalCount>>
           ELSE LET b == buildReplyPayload(o)
                IN  /\ marshalCount' = marshalCount + 1
                    /\ IF b.err
                       THEN /\ result' = Failure(Error("json: unsupported type"))
                            /\ pc' = "done"
                            /\ UNCHANGED payload
                       ELSE /\ payload' = RawPayload(b.bytes)
                            /\ pc' = "send"
                            /\ UNCHANGED result
    /\ UNCHANGED <<envelope, req, resp, reqCount, doCount, closeCount>>

\* lines 277-287
Reply ==
    /\ pc = "idle"
    /\ \E p \in ParamsSet, o \in ReplyParamsSet :
        /\ op' = "Reply"
        /\ args' = o
        /\ params' = p
        /\ IF o.nil
           THEN /\ result' = Failure(Error("options cannot be nil"))
                /\ pc' = "done"
                /\ UNCHANGED <<payload, marshalCount>>
           ELSE LET b == buildReplyPayload(o)
                IN  /\ marshalCount' = marshalCount + 1
                    /\ IF b.err
                       THEN /\ result' = Failure(Error("json: unsupported type"))
                            /\ pc' = "done"
                            /\ UNCHANGED payload
                       ELSE /\ payload' = RawPayload(b.bytes)
                            /\ pc' = "send"
                            /\ UNCHANGED result
    /\ UNCHANGED <<envelope, req, resp, reqCount, doCount, closeCount>>

\* line 60: Send called by the user of the package with its own payload
Send ==
    /\ pc = "idle"
    /\ \E p \in ParamsSet, b \in DirectPayloads :
        /\ op' = "Send"
        /\ args' = b
        /\ params' = p
        /\ payload' = b
    /\ pc' = "send"
    /\ UNCHANGED <<envelope, req, resp, result, marshalCount, reqCount,
                   doCount, closeCount>>

\* lines 67-69: NewRequestWithContext dereferences params at line 24
SendNewRequest ==
    /\ pc = "send"
    /\ IF params.nil
       THEN /\ pc' = "panic"
            /\ UNCHANGED <<req, result, reqCount>>
       ELSE \E order \in Orders(DOMAIN params.Headers) :
              LET r == NewRequestWithContext(params, payload, order)
              IN  IF r.err # NoError
                  THEN /\ result' = Failure(r.err)
                       /\ pc' = "done"
                       /\ UNCHANGED <<req, reqCount>>
                  ELSE /\ req' = r.req
                       /\ reqCount' = reqCount + 1
                       /\ pc' = "do"
                       /\ UNCHANGED result
    /\ UNCHANGED <<op, args, params, envelope, payload, resp,
                   marshalCount, doCount, closeCount>>

\* what lines 71-73 leave of Send's own data: the request has gone to
\* the transport, and nothing after line 71 reads params, payload or req
AfterDo ==
    /\ params' = NilParams
    /\ payload' = NilPayload
    /\ req' = NoRequest
    /\ UNCHANGED <<args, envelope>>

\* a changed SendDo: a failed exchange is tried a second time
SendDoRetries ==
    /\ pc = "do"
    /\ AfterDo
    /\ \/ /\ doCount' = doCount + 2
          /\ result' = Failure(Error("transport failure"))
          /\ pc' = "done"
          /\ UNCHANGED resp
       \/ \E r \in Responses :
            /\ doCount' = doCount + 1
            /\ resp' = r
            /\ pc' = "resp"
            /\ UNCHANGED result
    /\ UNCHANGED <<op, marshalCount, reqCount, closeCount>>

\* lines 71-73: client.Do fails or returns a response
SendDo ==
    /\ pc = "do"
    /\ AfterDo
    /\ doCount' = doCount + 1
    /\ \/ /\ result' = Failure(Error("transport failure"))
          /\ pc' = "done"
          /\ UNCHANGED resp
       \/ \E r \in Responses :
            /\ resp' = r
            /\ pc' = "resp"
            /\ UNCHANGED result
    /\ UNCHANGED <<op, marshalCount, reqCount, closeCount>>

\* lines 75-107: the defer statement, then the outcome, then the
\* deferred Close as Send returns
SendFinish ==
    /\ pc = "resp"
    /\ IF DeferPanics(resp)
       THEN /\ pc' = "panic"
            /\ UNCHANGED <<result, closeCount>>
       ELSE /\ result' = SendOutcome(resp)
            /\ closeCount' = closeCount + 1
            /\ pc' = "done"
    /\ UNCHANGED <<op, args, params, envelope, payload, req, resp,
                   marshalCount, reqCount, doCount>>

Next ==
    \/ SendText
    \/ SendLocation
    \/ React
    \/ SendContact
    \/ Reply
    \/ Send
    \/ SendNewRequest
    \/ SendDo
    \/ SendFinish

Spec == Init /\ [][Next]_vars

\* ----------------------------------------------------------------- claims
Ended == pc \in {"done", "panic"}

JSONBody(r) ==
    /\ ~r.nil
    /\ ~r.Body.nil
    /\ ~r.Body.readErr
    /\ r.Body.text.kind = "object"

C3_ErrorCodeIsStatus ==
    (pc = "done" /\ JSONBody(resp) /\ resp.StatusCode # StatusOK)
        => /\ result.Response.nil
           /\ result.err.kind = "ErrorResponse"
           /\ result.err.Code = resp.StatusCode

C3_Witness ==
    /\ pc = "done"
    /\ JSONBody(resp)
    /\ resp.StatusCode = 400
    /\ resp.Body.text.code = 100
    /\ result.err = ErrorResponse(400)

\* C4: status 200 with a body that decodes as the success message makes
\* Send return a nil error and the Response of status 200, the response's
\* headers and the decoded message; and a Response is returned for no
\* status other than 200.
C4_ResponseOnlyOn200 ==
    /\ (pc = "done" /\ JSONBody(resp) /\ resp.StatusCode = StatusOK)
          => /\ result.err = NoError
             /\ result.Response = [nil |-> FALSE, StatusCode |-> 200,
                                   Headers |-> resp.Header,
                                   Message |-> [ID |-> resp.Body.text.id]]
    /\ ~result.Response.nil
          => (pc = "done" /\ ~resp.nil /\ resp.StatusCode = StatusOK)

C4_Witness ==
    /\ pc = "done"
    /\ ~result.Response.nil
    /\ result.Response.StatusCode = 200
    /\ result.Response.Headers = "h2"
    /\ result.Response.Message.ID = "wamid.ID"

\* C5 as stated: every call that has returned has invoked the transport
\* exactly once.
C5_ExactlyOneExchange ==
    pc = "done" => doCount = 1

\* C5 as amended: the transport is invoked at most once per call, and
\* exactly once in every call whose request was constructed; a call that
\* ends before a request is constructed never invokes it.
C5_OneExchangePerRequest ==
    /\ doCount <= 1
    /\ reqCount <= 1
    /\ pc \in {"resp", "done", "panic"} => doCount = reqCount

C5_Witness ==
    /\ pc = "done"
    /\ op = "Reply"
    /\ reqCount = 1
    /\ doCount = 1
    /\ result = Failure(Error("transport failure"))

\* C6: a request built with a non-empty bearer token t carries the
\* Authorization header "Bearer t", whatever headers the caller supplied,
\* an Authorization header in any letter case included.
C6_BearerWins ==
    (pc = "do" /\ params.Bearer # <<>>)
        => /\ AuthorizationKey \in DOMAIN req.Header
           /\ req.Header[AuthorizationKey] = BearerPrefix \o params.Bearer
           /\ \A k \in DOMAIN req.Header :
                 CanonicalMIMEHeaderKey(k) = AuthorizationKey => k = AuthorizationKey

C6_Witness ==
    /\ pc = "do"
    /\ params.Bearer = <<"t", "0">>
    /\ \E k \in DOMAIN params.Headers :
          /\ k # AuthorizationKey
          /\ CanonicalMIMEHeaderKey(k) = AuthorizationKey
          /\ params.Headers[k] = <<"B", "a", "s", "i", "c">>
    /\ req.Header[AuthorizationKey] = <<"B", "e", "a", "r", "e", "r", " ", "t", "0">>

\* C7: Reply with nil options returns a nil Response and the error
\* "options cannot be nil", and has serialized nothing, built no payload
\* and no request, and not invoked the transport.
C7_NilOptionsRejectedFirst ==
    (op = "Reply" /\ args.nil /\ pc # "idle")
        => /\ pc = "done"
           /\ result = Failure(Error("options cannot be nil"))
           /\ marshalCount = 0
           /\ payload.nil
           /\ req.nil
           /\ reqCount = 0
           /\ doCount = 0

C7_Witness ==
    /\ op = "Reply"
    /\ args.nil
    /\ pc = "done"
    /\ result.err.msg = "options cannot be nil"

HasQuoteOrBackslash(str) == \E i \in 1..Len(str) : str[i] \in {"\"", "\\"}

\* C8: the payload buildReplyPayload produces for a Recipient or Context
\* that contains a quote or a backslash is well-formed JSON whose "to" and
\* context "message_id" decode to the Recipient and the Context given.
C8_ReplyPayloadRoundTrips ==
    (/\ op = "Reply"
     /\ pc = "send"
     /\ HasQuoteOrBackslash(args.Recipient) \/ HasQuoteOrBackslash(args.Context))
        => LET r == ParseJSON(payload.raw)
           IN  /\ r.ok
               /\ Member(r.val, <<"t", "o">>) = StrVal(args.Recipient)
               /\ Member(Member(r.val, <<"c", "o", "n", "t", "e", "x", "t">>),
                         <<"m", "e", "s", "s", "a", "g", "e", "_", "i", "d">>)
                    = StrVal(args.Context)

\* the payload fields of a Message that are populated
Populated(m) ==
    {f \in {"text", "location", "reaction", "contacts"} :
        CASE f = "text"     -> ~m.Text.nil
          [] f = "location" -> ~m.Location.nil
          [] f = "reaction" -> ~m.Reaction.nil
          [] OTHER          -> ~m.Contacts.nil}

\* the discriminant that goes with a payload field (the contacts field
\* goes with the kind "contact")
Discriminant(f) == IF f = "contacts" THEN "contact" ELSE f

\* C9: every envelope a builder constructs has exactly one payload field
\* populated, and its type is the discriminant of that field.
C9_ExactlyOnePayloadField ==
    ~envelope.nil
        => /\ Cardinality(Populated(envelope)) = 1
           /\ \A f \in Populated(envelope) : envelope.Type = Discriminant(f)

\* C10: no call ends in a panic.
C10_NoPanic ==
    pc # "panic"

====
